---- MODULE Spec2Model ----
(***************************************************************************)
(* Model of the energy monitoring system: the FastAPI server               *)
(* (api_server.py), its JSON history file (utils.py), the anomaly model    *)
(* wrapper (anomaly_detection.py) and the dashboard refresh step           *)
(* update_data (app.py).                                                   *)
(*                                                                         *)
(* Values.  A Python dict holding a reading is a record with a field       *)
(* `keys` (the keys the dict has) and a field `nan` (the keys whose value  *)
(* is the NaN pandas fills in for a missing column); a field whose key is  *)
(* not in `keys` holds a fixed default and means nothing.  A timestamp is  *)
(* a record [kind, fmt, t]: kind "datetime" for a pandas Timestamp, kind   *)
(* "str" for a string, whose fmt is "iso" (datetime.isoformat, with a T),  *)
(* "space" (str(Timestamp), with a blank), "empty" (the empty string) or   *)
(* "bad" (a string that is not a date); t is the instant in seconds.       *)
(* Currents are in tenths of an ampere, voltages in volts and powers in     *)
(* tenths of a watt, as integers.                                          *)
(***************************************************************************)
EXTENDS Integers, Sequences, FiniteSets, TLC

VARIABLES
    started,          \* the lifespan startup has run
    clock,            \* datetime.now() of the server, seconds into the hour
    file,             \* energy_data.json: [state, rows]
    latest_readings,  \* api_server.latest_readings
    anomaly_model,    \* api_server.anomaly_model
    arrived,          \* history: startup readings then stored posted readings
    accepted,         \* history: the stored reading of every accepted POST
    request,          \* the last request handled by the server
    response,         \* the response to it
    saved,            \* the last add_reading ran the save block
    fileBefore,       \* the file as it was before the last add_reading
    st,               \* the dashboard's st.session_state and last refresh
    esp,              \* simulate_esp32.main: the locals of its loop
    call,             \* the last call of a function on its own: its
                      \* arguments, the exception it raised, its value
    conc              \* POSTs received whose handler has not run yet, and
                      \* for each handler that ran, whether it saved

vars == <<started, clock, file, latest_readings, anomaly_model, arrived,
          accepted, request, response, saved, fileBefore, st, esp, call,
          conc>>

serverVars == <<started, clock, file, latest_readings, anomaly_model, arrived,
                accepted, request, response, saved, fileBefore>>

----------------------------------------------------------------------------
(* Bounds *)

MaxPosts == 2        \* POST /api/readings calls in one run
HistExtra == 1       \* initial history files hold up to 60 + HistExtra rows
MaxClock == 315      \* the run ends at this second of the hour
MaxLimit == 3        \* largest small ?limit= tried, besides 60 and above
MaxRefresh == 2      \* runs of update_data in one session
NPoints == 4         \* rows of simulated history (app.py asks for 1440)
MaxRows == 3         \* rows of a frame given to detect_anomalies
SimRows == 100       \* n_points of simulate_energy_data with anomalies
MaxReadings == 21    \* iterations of the loop of the ESP32 simulator
MaxIdx == 15         \* anomaly indices tried: 0..MaxIdx and the last six

(* Program constants *)

MAX_LATEST_READINGS == 60
DEFAULT_VOLTAGE == 220
StartClock == 295    \* the run starts at minute 4, second 55
TickStep == 5        \* the simulator posts every 5 seconds
LIVE_POINTS == 60    \* the live window: historical_data[-60:]

Max(a, b) == IF a >= b THEN a ELSE b
Min(a, b) == IF a <= b THEN a ELSE b

----------------------------------------------------------------------------
(* Python and pandas values *)

NoTimestamp == [kind |-> "none", fmt |-> "none", t |-> 0]
StrTimestamp(f, n) == [kind |-> "str", fmt |-> f, t |-> n]
Datetime(n) == [kind |-> "datetime", fmt |-> "none", t |-> n]

\* datetime.isoformat()
isoformat(n) == StrTimestamp("iso", n)

\* str(x) of one cell of the timestamp column (Series.astype(str))
astype_str(ts) ==
    IF ts.kind = "datetime" THEN StrTimestamp("space", ts.t) ELSE ts

\* pd.to_datetime accepts this cell
Parseable(ts) ==
    \/ ts.kind = "datetime"
    \/ ts.kind = "str" /\ ts.fmt \in {"iso", "space"}

\* pd.to_datetime of one cell that it accepts
to_datetime(ts) == Datetime(ts.t)

\* truthiness of an Optional[str]
Truthy(ts) == ts.kind = "str" /\ ts.fmt # "empty"

BaseKeys == {"current", "voltage", "power", "device_id", "timestamp"}
AnomalyKeys == {"is_anomaly", "anomaly_score"}

\* s[i:] of a Python list, for any integer i
PySliceFrom(s, i) ==
    LET start == IF i < 0 THEN Max(Len(s) + i, 0) ELSE Min(i, Len(s))
    IN  SubSeq(s, start + 1, Len(s))

\* mutant: the first n rows (DataFrame.head)
tail_head(rows, n) == SubSeq(rows, 1, Min(n, Len(rows)))

\* DataFrame.tail(n) for n >= 0
tail(rows, n) ==
    IF n = 0 THEN <<>> ELSE PySliceFrom(rows, 0 - n)

\* the union of the columns of the rows of a frame
Columns(rows) == UNION {rows[i].keys : i \in 1..Len(rows)}

\* pd.concat([existing, pd.DataFrame([rec])]).reset_index(drop=True):
\* the columns are the union of both, a missing cell is NaN
WithColumns(row, cols) ==
    [row EXCEPT !.keys = cols, !.nan = row.nan \cup (cols \ row.keys)]

pd_concat(rows, rec) ==
    LET cols == Columns(rows) \cup rec.keys
    IN  [i \in 1..(Len(rows) + 1) |->
            IF i <= Len(rows) THEN WithColumns(rows[i], cols)
                              ELSE WithColumns(rec, cols)]

----------------------------------------------------------------------------
(* utils.py: the JSON history file *)

None == [isNone |-> TRUE, rows |-> <<>>]
DataFrame(rs) == [isNone |-> FALSE, rows |-> rs]

MissingFile == [state |-> "missing", rows |-> <<>>]
JsonFile(rs) == [state |-> "json", rows |-> rs]

\* A call ends by returning a value or by raising: exc names the exception
\* that left the function, "" when it returned.
Returned(v) == [exc |-> "", value |-> v]
Raised(e, v) == [exc |-> e, value |-> v]

\* the classes that "except requests.exceptions.RequestException" catches
RequestException ==
    {"ConnectionError", "Timeout", "HTTPError", "requests.JSONDecodeError"}

\* the classes that "except Exception" catches
Exception ==
    RequestException \cup
    {"PermissionError", "OSError", "json.JSONDecodeError", "KeyError",
     "TypeError", "ValueError"}

\* files that exist and cannot be loaded: open() is refused, the text is not
\* JSON, the JSON is a number
UnreadableFile == [state |-> "unreadable", rows |-> <<>>]
CorruptFile == [state |-> "corrupt", rows |-> <<>>]
ScalarFile == [state |-> "scalar", rows |-> <<>>]

\* load_data, the try block (lines 17-29)
load_data_try(f) ==
    IF f.state = "missing" THEN Returned(None)
    ELSE IF f.state = "unreadable" THEN Raised("PermissionError", None)
    ELSE IF f.state = "corrupt" THEN Raised("json.JSONDecodeError", None)
    ELSE IF f.state = "scalar" THEN Raised("ValueError", None)
    ELSE IF "timestamp" \notin Columns(f.rows) THEN Raised("KeyError", None)
    ELSE IF \E i \in 1..Len(f.rows) :
                /\ "timestamp" \in f.rows[i].keys \ f.rows[i].nan
                /\ ~Parseable(f.rows[i].timestamp)
         THEN Raised("ValueError", None)
    ELSE Returned(DataFrame([i \in 1..Len(f.rows) |->
            LET row == WithColumns(f.rows[i], Columns(f.rows))
            IN  IF "timestamp" \in row.nan THEN row
                ELSE [row EXCEPT !.timestamp = to_datetime(row.timestamp)]]))

\* mutant: only the errors of open() are caught
load_data_except_OSError(outcome) ==
    IF outcome.exc \in {"PermissionError"} THEN Returned(None) ELSE outcome

\* load_data, the except clause (lines 30-32)
load_data_except(outcome) ==
    IF outcome.exc \in Exception THEN Returned(None) ELSE outcome

\* load_data with the way it ended
load_data_call(f) == load_data_except(load_data_try(f))

\* load_data: None when the file is missing, and None when anything raises:
\* open on a file it may not read, json.load on a damaged file,
\* df['timestamp'] on a frame with no such column (a frame with no rows has
\* none), pd.to_datetime on a string that is not a date
load_data(f) == load_data_call(f).value

\* save_data: the timestamp column becomes strings, the file is rewritten
\* with the records of the frame
save_data(data) ==
    JsonFile([i \in 1..Len(data.rows) |->
        IF "timestamp" \in data.rows[i].keys
        THEN [data.rows[i] EXCEPT !.timestamp = astype_str(data.rows[i].timestamp)]
        ELSE data.rows[i]])

\* where a save can fail: nowhere, in open() (the file may not be written),
\* or in json.dump after open() has emptied the file (a value that cannot
\* be encoded, a full disk)
SaveFaults == {"none", "open", "dump"}

\* save_data, the try block (lines 43-52), on the file f: the exception
\* that ended it and the file it leaves.  open(filename, 'w') empties the
\* file before json.dump writes, so a failure in json.dump leaves what was
\* written so far
save_data_try(data, f, fault) ==
    CASE fault = "open" -> [exc |-> "PermissionError", file |-> f]
      [] fault = "dump" -> [exc |-> "OSError", file |-> CorruptFile]
      [] OTHER -> [exc |-> "", file |-> save_data(data)]

\* save_data, the except clause (lines 53-54): the error is printed
save_data_except(outcome) ==
    IF outcome.exc \in Exception THEN [outcome EXCEPT !.exc = ""] ELSE outcome

\* save_data with the way it ended
save_data_call(data, f, fault) == save_data_except(save_data_try(data, f, fault))

----------------------------------------------------------------------------
(* anomaly_detection.py.  The fitted IsolationForest is a black box: it is *)
(* modelled by its stored scaler (the column means) and one cut; the       *)
(* decision function of a row is negative, zero or positive as the         *)
(* distance of the scaled row from the centre is above, at or below the    *)
(* cut.                                                                    *)

ForestCuts == {4420, 6600}

RECURSIVE SumOf(_, _)
SumOf(rows, col) ==
    IF rows = <<>> THEN 0
    ELSE (CASE col = 1 -> rows[1].current
            [] col = 2 -> rows[1].voltage
            [] OTHER   -> rows[1].power) + SumOf(Tail(rows), col)

NoModel == [trained |-> FALSE, scaler_ |-> <<0, 0, 0>>, cut |-> 0]

\* the models train_isolation_forest_model can return for these features:
\* the scaler is fitted on the data, the forest is whatever fit() builds
train_isolation_forest_model(rows) ==
    {[trained |-> TRUE,
      scaler_ |-> [col \in 1..3 |-> SumOf(rows, col) \div Len(rows)],
      cut     |-> c] : c \in ForestCuts}

\* model.scaler_.transform(data) for one row <<current, voltage, power>>
transform(model, x) == [col \in 1..3 |-> x[col] - model.scaler_[col]]

Abs(n) == IF n < 0 THEN 0 - n ELSE n

Sign(n) == IF n < 0 THEN 0 - 1 ELSE IF n > 0 THEN 1 ELSE 0

\* model.decision_function(scaled)[0]
decision_function(model, scaled) ==
    Sign(model.cut - Abs(scaled[1] + scaled[2] + scaled[3]))

\* model.predict(scaled)[0]: -1 for an outlier, 1 for an inlier
predict(model, scaled) ==
    IF decision_function(model, scaled) < 0 THEN 0 - 1 ELSE 1

\* mutant: True for the rows predicted as inliers
detect_anomalies_inlier(model, x) == predict(model, transform(model, x)) = 1

\* detect_anomalies(model, features_df)[0]
detect_anomalies(model, x) == predict(model, transform(model, x)) = 0 - 1

\* mutant: the decision function, not negated
get_anomaly_score_raw(model, x) == decision_function(model, transform(model, x))

\* get_anomaly_score(model, features_df)[0]
get_anomaly_score(model, x) == 0 - decision_function(model, transform(model, x))

\* detect_anomalies(model, data) for a frame of rows: the list comprehension
\* of line 53 over the predictions, in the order of the rows
detect_anomalies_rows(model, data) ==
    [i \in 1..Len(data) |-> detect_anomalies(model, data[i])]

\* get_anomaly_score(model, data) for a frame of rows
get_anomaly_score_rows(model, data) ==
    [i \in 1..Len(data) |-> get_anomaly_score(model, data[i])]

----------------------------------------------------------------------------
(* api_server.py *)

DEFAULT_DEVICE_ID == "ESP32_001"

NoPower == [given |-> FALSE, v |-> 0]
Power(p) == [given |-> TRUE, v |-> p]

\* the request bodies tried: current and voltage are required, power,
\* device_id and timestamp are optional
Body(c, p, d, ts) ==
    [current |-> c, voltage |-> DEFAULT_VOLTAGE, power |-> p, device_id |-> d,
     timestamp |-> ts]

NoDeviceId == [given |-> FALSE, v |-> ""]
DeviceId(d) == [given |-> TRUE, v |-> d]

Bodies ==
    {Body(10, NoPower, NoDeviceId, NoTimestamp),
     Body(50, Power(0), DeviceId("DEV_A"), StrTimestamp("iso", 100)),
     Body(50, NoPower, NoDeviceId, StrTimestamp("empty", 0)),
     Body(10, Power(0), DeviceId("DEV_A"), StrTimestamp("bad", 0))}

\* class SensorReading: the parsed body, with the default device_id
SensorReading(body) ==
    [current   |-> body.current,
     voltage   |-> body.voltage,
     power     |-> body.power,
     device_id |-> IF body.device_id.given THEN body.device_id.v
                   ELSE DEFAULT_DEVICE_ID,
     timestamp |-> body.timestamp]

\* a dict with the five keys of a reading
Reading(c, v, p, d, ts) ==
    [keys |-> BaseKeys, nan |-> {}, current |-> c, voltage |-> v, power |-> p,
     device_id |-> d, timestamp |-> ts, is_anomaly |-> FALSE,
     anomaly_score |-> 0]

\* mutant: a power of 0 is taken for a missing power
new_reading_falsy_power(reading, now) ==
    Reading(reading.current, reading.voltage,
            IF reading.power.given /\ reading.power.v # 0 THEN reading.power.v
            ELSE reading.current * reading.voltage,
            reading.device_id,
            IF Truthy(reading.timestamp) THEN reading.timestamp
            ELSE isoformat(now))

\* new_reading = {...} in add_reading
new_reading(reading, now) ==
    Reading(reading.current, reading.voltage,
            IF reading.power.given THEN reading.power.v
            ELSE reading.current * reading.voltage,
            reading.device_id,
            IF Truthy(reading.timestamp) THEN reading.timestamp
            ELSE isoformat(now))

\* mutant: only the flag is stored in the reading
with_anomaly_flag_only(rec, flag, score) ==
    [rec EXCEPT !.keys = rec.keys \cup {"is_anomaly"}, !.is_anomaly = flag]

\* new_reading["is_anomaly"] = ...; new_reading["anomaly_score"] = ...
with_anomaly(rec, flag, score) ==
    [rec EXCEPT !.keys = rec.keys \cup AnomalyKeys,
                !.is_anomaly = flag, !.anomaly_score = score]

\* mutant: the cut to the last 60 is forgotten
append_latest_nocut(buf, rec) == Append(buf, rec)

\* mutant: the cut keeps the oldest 60 instead of the newest
append_latest_oldest(buf, rec) ==
    LET appended == Append(buf, rec)
    IN  IF Len(appended) > MAX_LATEST_READINGS
        THEN SubSeq(appended, 1, MAX_LATEST_READINGS)
        ELSE appended

\* latest_readings.append(new_reading) and the cut to the last 60
append_latest(buf, rec) ==
    LET appended == Append(buf, rec)
    IN  IF Len(appended) > MAX_LATEST_READINGS
        THEN PySliceFrom(appended, 0 - MAX_LATEST_READINGS)
        ELSE appended

\* now.minute % 5 == 0 and now.second < 10
minute(now) == (now \div 60) % 60
second(now) == now % 60
in_save_window(now) == minute(now) % 5 = 0 /\ second(now) < 10

\* the save block of add_reading: the file after it
save_block(f, rec) ==
    LET existing_data == load_data(f)
        updated_data ==
            IF ~existing_data.isNone
            THEN DataFrame(pd_concat(existing_data.rows, rec))
            ELSE DataFrame(<<rec>>)
    IN  save_data(updated_data)

NoRequest == [op |-> "none", body |-> CHOOSE b \in Bodies : TRUE, limit |-> 0,
              now |-> 0]
NoResponse == [success |-> FALSE, reading |-> Reading(0, 0, 0, "", NoTimestamp),
               is_anomaly |-> FALSE, anomaly_score |-> 0, readings |-> <<>>]

\* a history file left by earlier runs: rows loaded and saved again carry
\* str(Timestamp), the row appended last carries the isoformat string
HistoryRow(i, n) ==
    Reading(IF i % 2 = 1 THEN 10 ELSE 50, DEFAULT_VOLTAGE,
            (IF i % 2 = 1 THEN 10 ELSE 50) * DEFAULT_VOLTAGE,
            DEFAULT_DEVICE_ID,
            StrTimestamp(IF i = n THEN "iso" ELSE "space", i))

HistoryLens ==
    {0, 1} \cup ((MAX_LATEST_READINGS - 1)..(MAX_LATEST_READINGS + HistExtra))

\* a history of one record whose timestamp string is not a date, as
\* add_reading writes it
BadHistory ==
    JsonFile(<<Reading(50, DEFAULT_VOLTAGE, 50 * DEFAULT_VOLTAGE,
                       DEFAULT_DEVICE_ID, StrTimestamp("bad", 0))>>)

InitFiles ==
    {MissingFile, CorruptFile, BadHistory}
    \cup {JsonFile([i \in 1..n |-> HistoryRow(i, n)]) : n \in HistoryLens}

\* lifespan, the startup part
lifespan ==
    /\ ~started
    /\ started' = TRUE
    /\ LET existing_data == load_data(file)
       IN  IF ~existing_data.isNone /\ Len(existing_data.rows) > 0
           THEN /\ anomaly_model' \in train_isolation_forest_model(existing_data.rows)
                /\ latest_readings' = tail(existing_data.rows, MAX_LATEST_READINGS)
           ELSE /\ anomaly_model' = anomaly_model
                /\ latest_readings' = latest_readings
    /\ arrived' = latest_readings'
    /\ UNCHANGED <<clock, file, accepted, request, response, saved, fileBefore, st,
                   esp, call, conc>>

\* mutant: the flag and the score are stored in the reading without a model
check_anomaly_always(model, rec) ==
    LET x == <<rec.current, rec.voltage, rec.power>>
        is_anomaly == IF model.trained THEN detect_anomalies(model, x) ELSE FALSE
        anomaly_score == IF model.trained THEN get_anomaly_score(model, x) ELSE 0
    IN  [reading |-> with_anomaly(rec, is_anomaly, anomaly_score),
         is_anomaly |-> is_anomaly, anomaly_score |-> anomaly_score]

\* lines 101-119 of add_reading: the flag and the score of the reading, and
\* the reading with both stored in it when a model exists
check_anomaly(model, rec) ==
    LET x == <<rec.current, rec.voltage, rec.power>>
    IN  IF model.trained
        THEN LET is_anomaly == detect_anomalies(model, x)
                 anomaly_score == get_anomaly_score(model, x)
             IN  [reading |-> with_anomaly(rec, is_anomaly, anomaly_score),
                  is_anomaly |-> is_anomaly, anomaly_score |-> anomaly_score]
        ELSE [reading |-> rec, is_anomaly |-> FALSE, anomaly_score |-> 0]

\* nothing received, nothing handled
NoConc == [inflight |-> <<>>, windows |-> <<>>]

\* the body of add_reading for one request: it has no await, so the event
\* loop runs it from the first line to the return without a switch
handle_reading(body) ==
    LET now == clock
        reading == SensorReading(body)
        checked == check_anomaly(anomaly_model, new_reading(reading, now))
        rec == checked.reading
    IN  /\ latest_readings' = append_latest(latest_readings, rec)
        /\ file' = IF in_save_window(now) THEN save_block(file, rec) ELSE file
        /\ saved' = in_save_window(now)
        /\ fileBefore' = file
        /\ arrived' = Append(arrived, rec)
        /\ accepted' = Append(accepted, rec)
        /\ request' = [op |-> "post", body |-> body, limit |-> 0, now |-> now]
        /\ response' = [success |-> TRUE, reading |-> rec,
                        is_anomaly |-> checked.is_anomaly,
                        anomaly_score |-> checked.anomaly_score,
                        readings |-> <<>>]
        /\ UNCHANGED <<started, clock, anomaly_model, st, esp, call>>

\* POST /api/readings
add_reading ==
    /\ started
    /\ Len(accepted) < MaxPosts
    /\ \E body \in Bodies : handle_reading(body)
    /\ UNCHANGED conc

\* a POST /api/readings arrives while others wait for the event loop
receive_reading ==
    /\ started
    /\ Len(accepted) + Len(conc.inflight) < MaxPosts
    /\ \E body \in Bodies :
        conc' = [conc EXCEPT !.inflight = Append(@, body)]
    /\ UNCHANGED <<serverVars, st, esp, call>>

\* the event loop runs the handler of one of the waiting requests, in any
\* order
run_handler ==
    /\ \E i \in 1..Len(conc.inflight) :
        /\ handle_reading(conc.inflight[i])
        /\ conc' = [inflight |-> SubSeq(conc.inflight, 1, i - 1)
                                 \o SubSeq(conc.inflight, i + 1, Len(conc.inflight)),
                    windows |-> Append(conc.windows, in_save_window(clock))]

\* the body of GET /api/readings/latest
get_latest_readings(buf, limit) ==
    LET lim == Min(limit, Len(buf))
    IN  PySliceFrom(buf, 0 - lim)

Limits == (0 - 1)..MaxLimit \cup
          {MAX_LATEST_READINGS - 1, MAX_LATEST_READINGS, MAX_LATEST_READINGS + 1}

\* GET /api/readings/latest?limit=
GetLatest ==
    /\ started
    /\ \E limit \in Limits :
        /\ request' = [op |-> "latest", body |-> NoRequest.body, limit |-> limit,
                       now |-> clock]
        /\ response' = [NoResponse EXCEPT
                            !.readings = get_latest_readings(latest_readings, limit)]
    /\ UNCHANGED <<started, clock, file, latest_readings, anomaly_model,
                   arrived, accepted, saved, fileBefore, st,
                   esp, call, conc>>

\* five seconds pass
Tick ==
    /\ clock + TickStep <= MaxClock
    /\ clock' = clock + TickStep
    /\ UNCHANGED <<started, file, latest_readings, anomaly_model, arrived,
                   accepted, request, response, saved, fileBefore, st,
                   esp, call, conc>>

----------------------------------------------------------------------------
(* utils.check_threshold_breach *)

\* mutant: a value equal to a threshold does not breach it
check_threshold_breach_strict(current_value, low_threshold, high_threshold) ==
    IF current_value > high_threshold THEN <<"High", "red">>
    ELSE IF current_value > low_threshold THEN <<"Moderate", "orange">>
    ELSE <<"Normal", "green">>

check_threshold_breach(current_value, low_threshold, high_threshold) ==
    IF current_value >= high_threshold THEN <<"High", "red">>
    ELSE IF current_value >= low_threshold THEN <<"Moderate", "orange">>
    ELSE <<"Normal", "green">>

----------------------------------------------------------------------------
(* app.py: the dashboard script.  st is st.session_state, plus `last`, the *)
(* record of the last run of update_data.                                  *)

\* the sidebar sliders (dashboard_components.render_sidebar): the two
\* thresholds are set independently, low may exceed high
DEFAULT_LOW == 20
DEFAULT_HIGH == 40
LowThresholds == {DEFAULT_LOW, 50}
HighThresholds == {10, DEFAULT_HIGH}

\* data_simulator: the currents the generator is let to draw; it never
\* returns less than 0.1 A, and power is current * voltage
MIN_CURRENT == 1
SimCurrents == {MIN_CURRENT, 20, 50}

SimPoint(c) ==
    [keys |-> {"current", "voltage", "power"}, nan |-> {}, current |-> c,
     voltage |-> DEFAULT_VOLTAGE, power |-> c * DEFAULT_VOLTAGE,
     device_id |-> "", timestamp |-> NoTimestamp, is_anomaly |-> FALSE,
     anomaly_score |-> 0]

\* new_point['timestamp'] = ...
with_timestamp(rec, ts) ==
    [rec EXCEPT !.keys = rec.keys \cup {"timestamp"}, !.timestamp = ts]

\* simulate_energy_data(n_points): one row a minute, ending now
simulate_energy_data(n_points, now) ==
    [i \in 1..n_points |->
        with_timestamp(SimPoint(IF i % 3 = 0 THEN 50 ELSE IF i % 3 = 1 THEN 20
                                ELSE MIN_CURRENT),
                       Datetime(now - 60 * (n_points - i + 1)))]

\* get_live_data_point: the points it can return
get_live_data_point == {SimPoint(c) : c \in SimCurrents}

\* The factors np.random.uniform can draw, in tenths: a spike is
\* uniform(2.5, 4.0), a drop uniform(0.1, 0.4), a fluctuation five draws of
\* uniform(0.6, 1.8).
SpikeFactors == {25, 40}
DropFactors == {1, 4}
FluctuationsTried == {<<6, 18, 6, 18, 6>>, <<18, 12, 6, 18, 12>>}
FLUCTUATION_ROWS == 5

\* current * factor, in tenths of an ampere; the product of two positive
\* numbers is positive, so what is below a tenth is rounded up
scaled_current(c, f) == (c * f + 9) \div 10

\* df.loc[idx, 'power'] = df.loc[idx, 'current'] * df.loc[idx, 'voltage']
recalculate_power(row) == [row EXCEPT !.power = row.current * row.voltage]

\* one pass of the loop over anomaly_indices (lines 60-79); idx counts
\* from 0, factors is one factor for a spike or a drop and five for a
\* fluctuation
inject_anomaly(rows, idx, anomaly_type, factors) ==
    LET n_points == Len(rows)
        modified ==
            [i \in 1..n_points |->
                IF anomaly_type \in {"spike", "drop"}
                THEN IF i = idx + 1
                     THEN [rows[i] EXCEPT
                              !.current = scaled_current(rows[i].current, factors[1])]
                     ELSE rows[i]
                ELSE IF idx < n_points - FLUCTUATION_ROWS
                        /\ i \in (idx + 1)..(idx + FLUCTUATION_ROWS)
                     THEN [rows[i] EXCEPT
                              !.current = scaled_current(rows[i].current,
                                                         factors[i - idx])]
                     ELSE rows[i]]
    IN  [i \in 1..n_points |->
            IF i = idx + 1 THEN recalculate_power(modified[i]) ELSE modified[i]]

\* the draws of one anomaly: its type and its factors
AnomalyDraws ==
    {<<"spike", <<f>>>> : f \in SpikeFactors}
    \cup {<<"drop", <<f>>>> : f \in DropFactors}
    \cup {<<"fluctuation", fs>> : fs \in FluctuationsTried}

\* int(n_points * 0.01)
anomaly_count(n_points) == n_points \div 100

\* the indices np.random.choice(n_points, ...) is tried with: the first
\* ones, and the last ones, where a fluctuation has no room
IndicesTried(n_points) ==
    {idx \in 0..(n_points - 1) :
        idx <= MaxIdx \/ idx >= n_points - FLUCTUATION_ROWS - 1}

\* simulate_energy_data(n_points, include_anomalies=True) for n_points that
\* give at most one anomaly: the frames it can return
simulate_energy_data_anomalies(n_points, now) ==
    IF anomaly_count(n_points) = 0 THEN {simulate_energy_data(n_points, now)}
    ELSE {inject_anomaly(simulate_energy_data(n_points, now), idx, d[1], d[2]) :
             idx \in IndicesTried(n_points), d \in AnomalyDraws}

\* get_live_data_point from line 113 on: the current is at least 0.1, a
\* spike or a drop multiplies it, the power is computed last
live_data_point(new_current, anomaly_type, factor) ==
    LET floored == Max(MIN_CURRENT, new_current)
    IN  SimPoint(IF anomaly_type \in {"spike", "drop"}
                 THEN scaled_current(floored, factor) ELSE floored)

\* what the client reads from the JSON body of GET /api/readings/latest:
\* a Timestamp was encoded as its isoformat string
json_reading(rec) ==
    IF "timestamp" \in rec.keys /\ rec.timestamp.kind = "datetime"
    THEN [rec EXCEPT !.timestamp = isoformat(rec.timestamp.t)]
    ELSE rec

\* the answers of api_client.get_latest_readings(limit=60) tried: what the
\* server returns for a buffer of one or two stored readings, with and
\* without a model
StoredPlain == {new_reading(SensorReading(b), StartClock) : b \in Bodies}
StoredScored ==
    {with_anomaly(r, f, IF f THEN 1 ELSE 0 - 1) :
        r \in {x \in StoredPlain : Parseable(x.timestamp) /\ x.power # 0},
        f \in BOOLEAN}
GoodStored == new_reading(SensorReading(Body(10, NoPower, NoDeviceId, NoTimestamp)), 1)
BadStored ==
    new_reading(SensorReading(Body(50, NoPower, NoDeviceId, StrTimestamp("bad", 0))), 1)

ApiBuffers ==
    {<<r>> : r \in StoredPlain \cup StoredScored}
    \cup {<<BadStored, GoodStored>>, <<GoodStored, BadStored>>}

ApiLatest ==
    {[i \in 1..Len(get_latest_readings(b, 60)) |->
        json_reading(get_latest_readings(b, 60)[i])] : b \in ApiBuffers}

\* the answers of api_client.get_historical_data(days=1) tried: an empty
\* frame, or a frame of one row
ApiHistory == {<<>>, <<[GoodStored EXCEPT !.timestamp = Datetime(1)]>>}

Alert(ts, point, type, status) ==
    [timestamp |-> ts, current |-> point.current, power |-> point.power,
     type |-> type, status |-> status]

NoLast ==
    [outcome |-> "none", returned |-> FALSE, api_available |-> FALSE,
     latest |-> <<>>, new_point |-> SimPoint(0), is_anomaly |-> FALSE,
     status |-> "", color |-> "", low |-> 0, high |-> 0, appended |-> FALSE]

\* mutant: the threshold breach takes precedence over the anomaly
alert_block_breach_first(history, ts, point, status, is_anomaly) ==
    IF status = "High" \/ is_anomaly
    THEN Append(history,
                Alert(ts, point,
                      IF status = "High" THEN "Threshold Breach" ELSE "Anomaly Detected",
                      status))
    ELSE history

\* the alert block of update_data (lines 122-131 and 174-183): the alert
\* history after it
alert_block(history, ts, point, status, is_anomaly) ==
    IF status = "High" \/ is_anomaly
    THEN Append(history,
                Alert(ts, point,
                      IF is_anomaly THEN "Anomaly Detected" ELSE "Threshold Breach",
                      status))
    ELSE history

\* new_point.get('is_anomaly', False)
get_is_anomaly(point) ==
    IF "is_anomaly" \in point.keys THEN point.is_anomaly ELSE FALSE

\* update_data, the branch that uses the API answer
update_from_api(latest, api_historical) ==
    IF \E i \in 1..Len(latest) : ~Parseable(latest[i].timestamp)
    THEN \* pd.to_datetime raises at line 99: the run ends there
         [st EXCEPT !.last =
                   [NoLast EXCEPT !.outcome = "raised", !.api_available = TRUE,
                                  !.latest = latest,
                                  !.new_point = latest[Len(latest)],
                                  !.low = st.alert_threshold_low,
                                  !.high = st.alert_threshold_high]]
    ELSE LET df_readings ==
                 [i \in 1..Len(latest) |->
                     [latest[i] EXCEPT !.timestamp = to_datetime(latest[i].timestamp)]]
             new_point == latest[Len(latest)]
             is_anomaly == get_is_anomaly(new_point)
             sc == check_threshold_breach(new_point.current,
                                          st.alert_threshold_low,
                                          st.alert_threshold_high)
             history == alert_block(st.alert_history,
                                    to_datetime(new_point.timestamp),
                                    new_point, sc[1], is_anomaly)
         IN  [st EXCEPT
                 !.live_data = df_readings,
                 !.historical_data = IF api_historical # <<>> THEN api_historical
                                     ELSE st.historical_data,
                 !.alert_history = history,
                 !.last = [outcome |-> "api", returned |-> TRUE,
                           api_available |-> TRUE, latest |-> latest,
                           new_point |-> new_point, is_anomaly |-> is_anomaly,
                           status |-> sc[1], color |-> sc[2],
                           low |-> st.alert_threshold_low,
                           high |-> st.alert_threshold_high,
                           appended |-> history # st.alert_history]]

\* update_data, the fallback to simulated data
update_simulated(api_available, point, now, on_the_minute) ==
    LET new_point == with_timestamp(point, Datetime(now))
        live == pd_concat(PySliceFrom(st.live_data, 1), new_point)
        is_anomaly == detect_anomalies(st.model,
                          <<new_point.current, new_point.voltage, new_point.power>>)
        sc == check_threshold_breach(new_point.current, st.alert_threshold_low,
                                     st.alert_threshold_high)
        history == alert_block(st.alert_history, new_point.timestamp, new_point,
                               sc[1], is_anomaly)
    IN  [st EXCEPT
            !.live_data = live,
            !.historical_data = IF on_the_minute
                                THEN pd_concat(st.historical_data, new_point)
                                ELSE st.historical_data,
            !.alert_history = history,
            !.last = [outcome |-> "sim", returned |-> FALSE,
                      api_available |-> api_available, latest |-> <<>>,
                      new_point |-> new_point, is_anomaly |-> is_anomaly,
                      status |-> sc[1], color |-> sc[2],
                      low |-> st.alert_threshold_low,
                      high |-> st.alert_threshold_high,
                      appended |-> history # st.alert_history]]

\* one run of update_data
update_data ==
    /\ st.refreshes < MaxRefresh
    /\ \E api_available \in BOOLEAN :
        \E session \in
            IF api_available
            THEN UNION {IF latest # <<>>
                        THEN {update_from_api(latest, h) : h \in ApiHistory}
                        ELSE {update_simulated(TRUE, point, clock, m) :
                                 point \in get_live_data_point, m \in BOOLEAN}
                        : latest \in ApiLatest \cup {<<>>}}
            ELSE {update_simulated(FALSE, point, clock, m) :
                     point \in get_live_data_point, m \in BOOLEAN} :
            st' = [session EXCEPT !.refreshes = st.refreshes + 1]
    /\ UNCHANGED <<serverVars, esp, call, conc>>

\* render_sidebar: the two threshold sliders are read
render_sidebar ==
    /\ \E low \in LowThresholds, high \in HighThresholds :
        /\ <<low, high>> # <<st.alert_threshold_low, st.alert_threshold_high>>
        /\ st' = [st EXCEPT !.alert_threshold_low = low,
                            !.alert_threshold_high = high]
    /\ UNCHANGED <<serverVars, esp, call, conc>>

\* the session state after the first run of the script (lines 31-56)
Session(now, model) ==
    LET historical_data == simulate_energy_data(NPoints, now)
    IN  [alert_threshold_low  |-> DEFAULT_LOW,
         alert_threshold_high |-> DEFAULT_HIGH,
         historical_data      |-> historical_data,
         live_data            |-> PySliceFrom(historical_data, 0 - LIVE_POINTS),
         alert_history        |-> <<>>,
         model                |-> model,
         last                 |-> NoLast,
         refreshes            |-> 0]

Sessions ==
    {Session(StartClock, m) :
        m \in train_isolation_forest_model(simulate_energy_data(NPoints, StartClock))}

----------------------------------------------------------------------------
(* api_client.py.  What the network gives back for one request: no answer  *)
(* (the connection fails or times out), or an answer with a status code    *)
(* and a body; the body is a JSON object with some keys, or not JSON.      *)

NotJson == [kind |-> "not_json", keys |-> {}, readings |-> <<>>]
JsonObject(keys, readings) ==
    [kind |-> "object", keys |-> keys, readings |-> readings]
NoAnswer(e) == [kind |-> e, status_code |-> 0, body |-> NotJson]
Answer(status_code, body) ==
    [kind |-> "answer", status_code |-> status_code, body |-> body]

\* the lists under "readings" tried: none, one stored reading, one stored
\* reading whose timestamp string is not a date
ReadingsTried == {<<>>, <<json_reading(GoodStored)>>, <<json_reading(BadStored)>>}

\* the keys of the answer of POST /api/readings
PostKeys == {"success", "reading", "is_anomaly", "anomaly_score"}

StatusOK == 200
StatusServerError == 500

NetAnswers ==
    {NoAnswer("ConnectionError"), NoAnswer("Timeout"),
     Answer(StatusServerError, JsonObject({"detail"}, <<>>)),
     Answer(StatusOK, NotJson),
     Answer(StatusOK, JsonObject({"detail"}, <<>>)),
     Answer(StatusOK, JsonObject(PostKeys, <<>>))}
    \cup {Answer(StatusOK, JsonObject({"readings"}, r)) : r \in ReadingsTried}

\* what response.json() raises on a body that is not JSON: a
\* RequestException in requests 2.27 and later, a plain ValueError before
JsonErrors == {"requests.JSONDecodeError", "json.JSONDecodeError"}

\* requests.get or requests.post, raise_for_status(), response.json()
fetch_json(net, json_error) ==
    IF net.kind # "answer" THEN Raised(net.kind, NotJson)
    ELSE IF net.status_code >= 400 THEN Raised("HTTPError", NotJson)
    ELSE IF net.body.kind = "not_json" THEN Raised(json_error, NotJson)
    ELSE Returned(net.body)

\* except requests.exceptions.RequestException: return the fallback
except_RequestException(outcome, fallback) ==
    IF outcome.exc \in RequestException THEN Returned(fallback) ELSE outcome

\* api_client.get_latest_readings
client_get_latest_readings(net, json_error) ==
    LET data == fetch_json(net, json_error)
        tried == IF data.exc # "" THEN Raised(data.exc, <<>>)
                 ELSE IF "readings" \notin data.value.keys
                      THEN Raised("KeyError", <<>>)
                 ELSE Returned(data.value.readings)
    IN  except_RequestException(tried, <<>>)

\* api_client.get_historical_data
client_get_historical_data(net, json_error) ==
    LET data == fetch_json(net, json_error)
        empty == DataFrame(<<>>)
        tried ==
            IF data.exc # "" THEN Raised(data.exc, empty)
            ELSE IF "readings" \notin data.value.keys THEN Raised("KeyError", empty)
            ELSE IF data.value.readings = <<>> THEN Returned(empty)
            ELSE LET rs == data.value.readings
                 IN  IF "timestamp" \notin Columns(rs) THEN Raised("KeyError", empty)
                     ELSE IF \E i \in 1..Len(rs) : ~Parseable(rs[i].timestamp)
                          THEN Raised("ValueError", empty)
                     ELSE Returned(DataFrame([i \in 1..Len(rs) |->
                            [rs[i] EXCEPT !.timestamp = to_datetime(rs[i].timestamp)]]))
    IN  except_RequestException(tried, empty)

\* api_client.check_api_status
check_api_status(net) ==
    LET tried == IF net.kind # "answer" THEN Raised(net.kind, FALSE)
                 ELSE Returned(net.status_code = StatusOK)
    IN  except_RequestException(tried, FALSE)

\* the value of post_test_reading: None, or the decoded body
NoJson == [isNone |-> TRUE, body |-> NotJson]
Json(body) == [isNone |-> FALSE, body |-> body]

\* api_client.post_test_reading
post_test_reading(net, json_error) ==
    LET data == fetch_json(net, json_error)
        tried == IF data.exc # "" THEN Raised(data.exc, NoJson)
                 ELSE Returned(Json(data.value))
    IN  except_RequestException(tried, NoJson)

ClientFunctions ==
    {"get_latest_readings", "get_historical_data", "check_api_status",
     "post_test_reading"}

\* one call of a function of the client
client_call(fn, net, json_error) ==
    CASE fn = "get_latest_readings" -> client_get_latest_readings(net, json_error)
      [] fn = "get_historical_data" -> client_get_historical_data(net, json_error)
      [] fn = "check_api_status" -> check_api_status(net)
      [] OTHER -> post_test_reading(net, json_error)

----------------------------------------------------------------------------
(* simulate_esp32.py *)

\* the locals of main before the loop
InitEsp ==
    [anomaly_counter |-> 0, include_anomaly |-> FALSE, readings |-> 0,
     delivered |-> 0]

ANOMALY_EVERY == 10

\* mutant: the counter is reset one reading late
count_reading_late(anomaly_counter) ==
    IF anomaly_counter + 1 > ANOMALY_EVERY
    THEN [include_anomaly |-> TRUE, anomaly_counter |-> 0]
    ELSE [include_anomaly |-> FALSE, anomaly_counter |-> anomaly_counter + 1]

\* lines 107-113 of main: the counter is incremented, and reset when it
\* reaches 10, which makes this reading one with include_anomaly True
count_reading(anomaly_counter) ==
    IF anomaly_counter + 1 >= ANOMALY_EVERY
    THEN [include_anomaly |-> TRUE, anomaly_counter |-> 0]
    ELSE [include_anomaly |-> FALSE, anomaly_counter |-> anomaly_counter + 1]

\* one iteration of the loop of main: a reading is generated and sent;
\* send_reading_to_api returns True or False
main ==
    /\ esp.readings < MaxReadings
    /\ \E success \in BOOLEAN :
        LET counted == count_reading(esp.anomaly_counter)
        IN  esp' = [anomaly_counter |-> counted.anomaly_counter,
                    include_anomaly |-> counted.include_anomaly,
                    readings |-> esp.readings + 1,
                    delivered |-> esp.delivered + (IF success THEN 1 ELSE 0)]
    /\ UNCHANGED <<serverVars, st, call, conc>>

----------------------------------------------------------------------------
(* Calls of single functions *)

NoCall == [fn |-> "none", exc |-> ""]

\* what a call leaves alone
calledVars == <<started, clock, latest_readings, anomaly_model, arrived,
                accepted, request, response, saved, fileBefore, st, esp,
                conc>>

\* the files load_data is tried on: no file, files that cannot be read or
\* decoded, an empty list, two records, a record whose timestamp is not a
\* date, a record with no timestamp, records of which one has no timestamp
FilesTried ==
    {MissingFile, UnreadableFile, CorruptFile, ScalarFile, JsonFile(<<>>),
     JsonFile(<<HistoryRow(1, 2), HistoryRow(2, 2)>>),
     JsonFile(<<HistoryRow(1, 1), BadStored>>),
     JsonFile(<<SimPoint(20)>>),
     JsonFile(<<HistoryRow(1, 1), SimPoint(20)>>)}

\* load_data(DATA_FILE) on the file as it is
LoadData ==
    /\ LET outcome == load_data_call(file)
       IN  call' = [fn |-> "load_data", file |-> file, exc |-> outcome.exc,
                    value |-> outcome.value]
    /\ UNCHANGED <<calledVars, file>>

\* the models and the feature rows <<current, voltage, power>> that
\* detect_anomalies and get_anomaly_score are tried on
ModelsTried ==
    train_isolation_forest_model(<<HistoryRow(1, 2), HistoryRow(2, 2)>>)

FeaturesTried ==
    {<<c, DEFAULT_VOLTAGE, c * DEFAULT_VOLTAGE>> : c \in {10, 100}}

FramesTried == UNION {[1..n -> FeaturesTried] : n \in 1..MaxRows}

\* detect_anomalies(model, data): the model is read, never assigned
DetectAnomalies ==
    /\ \E model \in ModelsTried, data \in FramesTried :
        call' = [fn |-> "detect_anomalies", model |-> model, data |-> data,
                 exc |-> "", value |-> detect_anomalies_rows(model, data),
                 model_after |-> model]
    /\ UNCHANGED <<calledVars, file>>

\* simulate_energy_data(n_points, include_anomalies)
SimulateEnergyData ==
    /\ \E n_points \in {NPoints, SimRows}, include_anomalies \in BOOLEAN :
        \E rows \in IF include_anomalies
                    THEN simulate_energy_data_anomalies(n_points, clock)
                    ELSE {simulate_energy_data(n_points, clock)} :
            call' = [fn |-> "simulate_energy_data", n_points |-> n_points,
                     include_anomalies |-> include_anomalies, exc |-> "",
                     value |-> rows]
    /\ UNCHANGED <<calledVars, file>>

\* get_live_data_point(last_point, include_anomalies, anomaly_probability)
GetLiveDataPoint ==
    /\ \E new_current \in {0 - 1} \cup SimCurrents,
          d \in {<<"none", 10>>} \cup {<<"spike", f>> : f \in SpikeFactors}
                \cup {<<"drop", f>> : f \in DropFactors} :
        call' = [fn |-> "get_live_data_point", anomaly_type |-> d[1],
                 exc |-> "", value |-> live_data_point(new_current, d[1], d[2])]
    /\ UNCHANGED <<calledVars, file>>

\* the frames add_reading gives to save_data: the new reading alone, or
\* the loaded history with the new reading appended; the new reading has
\* the timestamp string it was stored with, with or without the anomaly
\* columns
LoadedHistory == load_data(JsonFile(<<HistoryRow(1, 2), HistoryRow(2, 2)>>)).rows

FramesSaved ==
    {DataFrame(<<GoodStored>>),
     DataFrame(pd_concat(LoadedHistory, GoodStored)),
     DataFrame(pd_concat(LoadedHistory, with_anomaly(GoodStored, TRUE, 1))),
     DataFrame(pd_concat(LoadedHistory, BadStored))}

\* save_data(updated_data, DATA_FILE)
SaveData ==
    /\ \E data \in FramesSaved, fault \in SaveFaults :
        LET outcome == save_data_call(data, file, fault)
        IN  /\ file' = outcome.file
            /\ call' = [fn |-> "save_data", data |-> data, fault |-> fault,
                        exc |-> outcome.exc, before |-> file]
    /\ UNCHANGED calledVars

\* detect_anomalies and get_anomaly_score on the same model and frame, as
\* add_reading calls them (api_server.py:113-115)
ScoreAnomalies ==
    /\ \E model \in ModelsTried, data \in FramesTried :
        call' = [fn |-> "score_anomalies", model |-> model, data |-> data,
                 exc |-> "", flags |-> detect_anomalies_rows(model, data),
                 value |-> get_anomaly_score_rows(model, data)]
    /\ UNCHANGED <<calledVars, file>>

\* the dashboard calls a function of the client and the network answers
ClientCall ==
    /\ \E fn \in ClientFunctions, net \in NetAnswers, json_error \in JsonErrors :
        LET outcome == client_call(fn, net, json_error)
        IN  call' = [fn |-> fn, net |-> net, exc |-> outcome.exc,
                     value |-> outcome.value]
    /\ UNCHANGED <<calledVars, file>>

----------------------------------------------------------------------------
(* Specifications *)

ServerInit ==
    /\ started = FALSE
    /\ clock = StartClock
    /\ latest_readings = <<>>
    /\ anomaly_model = NoModel
    /\ arrived = <<>>
    /\ accepted = <<>>
    /\ request = NoRequest
    /\ response = NoResponse
    /\ saved = FALSE
    /\ fileBefore = file
    /\ esp = InitEsp
    /\ call = NoCall
    /\ conc = NoConc

\* the server starts on any of the history files, beside a fresh dashboard
Init ==
    /\ file \in InitFiles
    /\ ServerInit
    /\ st = Session(StartClock, CHOOSE m \in train_isolation_forest_model(
                        simulate_energy_data(NPoints, StartClock)) : TRUE)

\* the dashboard starts with any model fit() may have built
InitDash ==
    /\ file = MissingFile
    /\ ServerInit
    /\ st \in Sessions

\* the server, with time passing
Next == lifespan \/ add_reading \/ Tick

Spec == Init /\ [][Next]_vars

\* the server, read through GET /api/readings/latest
NextLatest == lifespan \/ add_reading \/ GetLatest

SpecLatest == Init /\ [][NextLatest]_vars

\* the dashboard
NextDash == update_data \/ render_sidebar

SpecDash == InitDash /\ [][NextDash]_vars

\* single functions, called on their own
InitCalls ==
    /\ file \in FilesTried
    /\ ServerInit
    /\ st = Session(StartClock, CHOOSE m \in train_isolation_forest_model(
                        simulate_energy_data(NPoints, StartClock)) : TRUE)

NextCalls ==
    ClientCall \/ LoadData \/ DetectAnomalies \/ SaveData \/ ScoreAnomalies

SpecCalls == InitCalls /\ [][NextCalls]_vars

\* the data simulator, called on its own
InitSim ==
    /\ file = MissingFile
    /\ ServerInit
    /\ st = Session(StartClock, CHOOSE m \in train_isolation_forest_model(
                        simulate_energy_data(NPoints, StartClock)) : TRUE)

NextSim == SimulateEnergyData \/ GetLiveDataPoint

SpecSim == InitSim /\ [][NextSim]_vars

\* the server with POSTs that arrive while others wait to be handled
InitConc ==
    /\ file \in {MissingFile, JsonFile(<<HistoryRow(1, 1)>>)}
    /\ ServerInit
    /\ st = Session(StartClock, CHOOSE m \in train_isolation_forest_model(
                        simulate_energy_data(NPoints, StartClock)) : TRUE)

NextConc == lifespan \/ receive_reading \/ run_handler \/ Tick

SpecConc == InitConc /\ [][NextConc]_vars

\* the ESP32 simulator
NextEsp == main

SpecEsp == InitSim /\ [][NextEsp]_vars

----------------------------------------------------------------------------
(* Properties *)

Newest(seq) == seq[Len(seq)]

\* the last n elements of seq, for 0 <= n <= Len(seq)
Last(seq, n) == SubSeq(seq, Len(seq) - n + 1, Len(seq))

\* two records are the same reading: the same measurements at the same
\* instant, whatever the form of the timestamp and the columns added
SameTimestamp(a, b) ==
    IF Parseable(a) /\ Parseable(b) THEN a.t = b.t ELSE a = b

SameReading(a, b) ==
    /\ a.current = b.current
    /\ a.voltage = b.voltage
    /\ a.power = b.power
    /\ SameTimestamp(a.timestamp, b.timestamp)

InFile(rec) ==
    /\ file.state = "json"
    /\ \E i \in 1..Len(file.rows) : SameReading(file.rows[i], rec)

\* C1: after startup and after any sequence of POSTs, latest_readings never
\* holds more than MAX_LATEST_READINGS readings.
C1_BufferBounded == Len(latest_readings) <= MAX_LATEST_READINGS

\* a POST has just evicted a reading from a full buffer
C1_Witness ==
    /\ request.op = "post"
    /\ Len(arrived) > MAX_LATEST_READINGS
    /\ Len(latest_readings) = MAX_LATEST_READINGS

\* C2: latest_readings is the last min(n, 60) readings of the sequence of
\* startup readings followed by posted readings, in arrival order: the
\* newest reading is last and the oldest is evicted first.
C2_BufferIsNewestSuffix ==
    started =>
        latest_readings =
            Last(arrived, Min(Len(arrived), MAX_LATEST_READINGS))

\* two POSTs have each evicted the oldest reading
C2_Witness ==
    /\ Len(accepted) = 2
    /\ Len(arrived) = MAX_LATEST_READINGS + 2
    /\ Newest(latest_readings) = accepted[2]
    /\ latest_readings[1] = arrived[3]

C4_AlertIffHighOrAnomaly ==
    st.last.outcome # "none" =>
        LET point == st.last.new_point
            status == check_threshold_breach(point.current, st.last.low,
                                             st.last.high)[1]
            flagged == IF st.last.outcome = "sim" THEN st.last.is_anomaly
                       ELSE get_is_anomaly(point)
        IN  st.last.appended <=> (status = "High" \/ flagged)

\* C5: an alert appended by update_data has type "Anomaly Detected" when
\* the reading is flagged anomalous, whatever its status, and "Threshold
\* Breach" only when the status is High and the reading is not anomalous;
\* its status field is the threshold status of that same reading.
C5_AlertType ==
    /\ st.last.appended =>
        LET alert == Newest(st.alert_history)
        IN  /\ st.last.is_anomaly => alert.type = "Anomaly Detected"
            /\ alert.type = "Threshold Breach" =>
                  (st.last.status = "High" /\ ~st.last.is_anomaly)
            /\ alert.type \in {"Anomaly Detected", "Threshold Breach"}
            /\ alert.status = st.last.status
            /\ alert.current = st.last.new_point.current
    /\ \A i \in 1..Len(st.alert_history) :
          st.alert_history[i].type = "Threshold Breach" =>
              st.alert_history[i].status = "High"

\* an anomalous reading with a High status was reported as an anomaly
C5_Witness ==
    /\ st.last.appended
    /\ st.last.is_anomaly
    /\ st.last.status = "High"
    /\ Newest(st.alert_history).type = "Anomaly Detected"
    /\ Newest(st.alert_history).status = "High"

\* C6: every reading accepted by POST /api/readings is in the history file
\* after the next periodic save: once add_reading has saved, no accepted
\* reading is missing from the file.
C6_AcceptedIsPersisted ==
    (request.op = "post" /\ saved) =>
        \A i \in 1..Len(accepted) : InFile(accepted[i])

\* C7: the history is an append-only log: when add_reading saves, the file
\* afterwards holds every record it held before, in the same order,
\* followed by the new reading.
C7_AppendOnly ==
    (request.op = "post" /\ saved) =>
        /\ file.state = "json"
        /\ Len(file.rows) = Len(fileBefore.rows) + 1
        /\ \A i \in 1..Len(fileBefore.rows) :
              SameReading(file.rows[i], fileBefore.rows[i])
        /\ SameReading(Newest(file.rows), response.reading)

\* C8, as stated: the stored reading keeps the submitted current, voltage
\* and device_id; its power is the submitted power when one was given
\* (including 0) and current * voltage otherwise; its timestamp is the
\* submitted timestamp when one was given and the receive time otherwise.
C8_StoredFields ==
    request.op = "post" =>
        LET body == request.body
            stored == Newest(latest_readings)
        IN  /\ stored.current = body.current
            /\ stored.voltage = body.voltage
            /\ body.device_id.given => stored.device_id = body.device_id.v
            /\ stored.power = IF body.power.given THEN body.power.v
                              ELSE body.current * body.voltage
            /\ stored.timestamp = IF body.timestamp # NoTimestamp
                                  THEN body.timestamp
                                  ELSE isoformat(request.now)

\* C8, amended: as C8, but the timestamp is the submitted one only when a
\* non-empty one was given; a missing or empty timestamp is replaced by
\* the receive time.
C8_StoredFieldsNonEmpty ==
    request.op = "post" =>
        LET body == request.body
            stored == Newest(latest_readings)
        IN  /\ stored.current = body.current
            /\ stored.voltage = body.voltage
            /\ body.device_id.given => stored.device_id = body.device_id.v
            /\ stored.power = IF body.power.given THEN body.power.v
                              ELSE body.current * body.voltage
            /\ stored.timestamp =
                  IF body.timestamp \notin {NoTimestamp, StrTimestamp("empty", 0)}
                  THEN body.timestamp
                  ELSE isoformat(request.now)
            /\ stored = response.reading

\* a reading posted with an empty timestamp was stored with the receive time
C8_Witness ==
    /\ request.op = "post"
    /\ request.body.timestamp = StrTimestamp("empty", 0)
    /\ Newest(latest_readings).timestamp = isoformat(request.now)
    /\ Len(accepted) = 2
    /\ accepted[1].power = 0

\* C9: with no anomaly model, POST /api/readings succeeds: success True,
\* is_anomaly False, anomaly_score 0, the reading is added to the buffer
\* and carries no is_anomaly or anomaly_score field.
C9_NoModel ==
    (request.op = "post" /\ ~anomaly_model.trained) =>
        /\ response.success
        /\ response.is_anomaly = FALSE
        /\ response.anomaly_score = 0
        /\ Newest(latest_readings) = response.reading
        /\ Newest(accepted) = response.reading
        /\ response.reading.keys \cap AnomalyKeys = {}

\* a server started without a history file has answered a POST
C9_Witness ==
    /\ request.op = "post"
    /\ ~anomaly_model.trained
    /\ fileBefore.state = "missing"
    /\ response.success
    /\ Len(latest_readings) = 1

\* C10: GET /api/readings/latest returns at most limit readings, the most
\* recent ones of the buffer in arrival order, for every integer limit.
C10_AtMostLimit ==
    request.op = "latest" =>
        /\ Len(response.readings) <= Max(request.limit, 0)
        /\ Len(response.readings) <= Len(latest_readings)
        /\ response.readings = Last(latest_readings, Len(response.readings))


\* C11: a run of update_data returns True exactly when the status check
\* succeeded and the API gave a non-empty list of latest readings; in every
\* other case it appends one simulated point to live_data (dropping the
\* oldest), returns False, and leaves historical_data alone or extends it by
\* that simulated point, so no API data replaces either of them.
C11_ReturnsTrueIffApiData ==
    [][st'.refreshes = st.refreshes + 1 =>
        LET last == st'.last
            from_api == last.api_available /\ last.latest # <<>>
        IN  /\ last.returned <=> from_api
            /\ ~from_api =>
                /\ last.outcome = "sim"
                /\ ~last.returned
                /\ last.new_point.current \in SimCurrents
                /\ st'.live_data =
                       pd_concat(PySliceFrom(st.live_data, 1), last.new_point)
                /\ st'.historical_data \in
                       {st.historical_data,
                        pd_concat(st.historical_data, last.new_point)}]_vars

\* the request of a client function failed: no answer, an HTTP error status,
\* or a body that is not the JSON the function reads
FailedRequest(fn, net) ==
    \/ net.kind # "answer"
    \/ IF fn = "check_api_status" THEN net.status_code # StatusOK
       ELSE \/ net.status_code >= 400
            \/ net.body.kind = "not_json"
            \/ /\ fn \in {"get_latest_readings", "get_historical_data"}
               /\ "readings" \notin net.body.keys

\* what a client function returns for a failed request
Fallback(fn) ==
    CASE fn = "get_latest_readings" -> <<>>
      [] fn = "get_historical_data" -> DataFrame(<<>>)
      [] fn = "check_api_status" -> FALSE
      [] OTHER -> NoJson

\* C12: no call of a function of the API client raises, and for a failed
\* request (connection error, timeout, HTTP error status, a body that is not
\* the expected JSON) get_latest_readings returns the empty list,
\* get_historical_data an empty frame, check_api_status False and
\* post_test_reading None.
C12_ClientNeverRaises ==
    call.fn \in ClientFunctions =>
        /\ call.exc = ""
        /\ FailedRequest(call.fn, call.net) => call.value = Fallback(call.fn)

\* the file can be read and decoded into records with a timestamp column
Loadable(f) ==
    /\ f.state = "json"
    /\ \E i \in 1..Len(f.rows) : "timestamp" \in f.rows[i].keys
    /\ \A i \in 1..Len(f.rows) :
          "timestamp" \in f.rows[i].keys => Parseable(f.rows[i].timestamp)

\* C13: load_data never raises; it returns None when the file does not
\* exist and when the file exists but cannot be read or parsed into records
\* with a timestamp; when it returns a frame, the frame holds every record of
\* the file, in order, with its timestamp as a datetime.
C13_LoadNeverRaises ==
    call.fn = "load_data" =>
        /\ call.exc = ""
        /\ ~Loadable(call.file) => call.value = None
        /\ ~call.value.isNone =>
            /\ Loadable(call.file)
            /\ Len(call.value.rows) = Len(call.file.rows)
            /\ \A i \in 1..Len(call.file.rows) :
                  LET row == call.value.rows[i]
                  IN  /\ row.current = call.file.rows[i].current
                      /\ row.voltage = call.file.rows[i].voltage
                      /\ row.power = call.file.rows[i].power
                      /\ "timestamp" \in call.file.rows[i].keys =>
                            row.timestamp = Datetime(call.file.rows[i].timestamp.t)

\* load_data met a file that exists and cannot be parsed, and returned None
C13_Witness ==
    /\ call.fn = "load_data"
    /\ call.file.state = "json" /\ call.file.rows # <<>>
    /\ ~Loadable(call.file)
    /\ call.exc = "" /\ call.value = None

\* C14: right after startup, if the history file could be loaded and holds
\* n >= 1 records, the model is trained on the current, voltage and power
\* columns of all n records and latest_readings is the last min(n, 60)
\* records of the file in order; if the file is missing, unreadable or empty,
\* the model is None and latest_readings is empty.
C14_Startup ==
    (started /\ accepted = <<>>) =>
        IF Loadable(file)
        THEN LET n == Len(file.rows)
                 m == Min(n, MAX_LATEST_READINGS)
             IN  /\ anomaly_model.trained
                 /\ \A col \in 1..3 :
                       anomaly_model.scaler_[col] = SumOf(file.rows, col) \div n
                 /\ Len(latest_readings) = m
                 /\ \A i \in 1..m :
                       /\ SameReading(latest_readings[i], file.rows[n - m + i])
                       /\ latest_readings[i].timestamp.kind = "datetime"
        ELSE anomaly_model = NoModel /\ latest_readings = <<>>

\* the server has started on a history longer than the buffer
C14_Witness ==
    /\ started /\ accepted = <<>>
    /\ Loadable(file)
    /\ Len(file.rows) > MAX_LATEST_READINGS
    /\ anomaly_model.trained
    /\ Len(latest_readings) = MAX_LATEST_READINGS

\* the record carries the flag and the score of the response
CarriesAnomaly(rec) ==
    /\ AnomalyKeys \subseteq rec.keys
    /\ rec.nan \cap AnomalyKeys = {}
    /\ rec.is_anomaly = response.is_anomaly
    /\ rec.anomaly_score = response.anomaly_score

\* C15: when an anomaly model exists, the reading add_reading returns, the
\* entry it placed in latest_readings and the record it wrote to the file
\* all carry is_anomaly and anomaly_score, equal to the top-level is_anomaly
\* and anomaly_score of the response.
C15_AnomalyFields ==
    (request.op = "post" /\ anomaly_model.trained) =>
        /\ CarriesAnomaly(response.reading)
        /\ CarriesAnomaly(Newest(latest_readings))
        /\ SameReading(Newest(latest_readings), response.reading)
        /\ saved =>
            /\ file.state = "json"
            /\ CarriesAnomaly(Newest(file.rows))
            /\ SameReading(Newest(file.rows), response.reading)

\* a server with a model has flagged a reading and written it to the file
C15_Witness ==
    /\ request.op = "post" /\ anomaly_model.trained
    /\ saved
    /\ response.is_anomaly
    /\ Newest(file.rows).is_anomaly
    /\ Newest(latest_readings).anomaly_score = response.anomaly_score

\* C16: detect_anomalies returns one boolean per input row, in the order of
\* the rows, True exactly for the rows the model predicts as -1, and leaves
\* the model and its scaler as they were.
C16_OneFlagPerRow ==
    call.fn = "detect_anomalies" =>
        /\ Len(call.value) = Len(call.data)
        /\ \A i \in 1..Len(call.data) :
              call.value[i] <=>
                  predict(call.model, transform(call.model, call.data[i])) = 0 - 1
        /\ call.model_after = call.model
        /\ call.model_after.scaler_ = call.model.scaler_

\* a frame of three rows of which only the second is an outlier
C16_Witness ==
    /\ call.fn = "detect_anomalies"
    /\ call.value = <<FALSE, TRUE, FALSE>>

\* power = current * voltage and current > 0 in this row
ConsistentRow(row) ==
    /\ row.power = row.current * row.voltage
    /\ row.current > 0

\* C17: in every row of the frame simulate_energy_data returns, with or
\* without injected anomalies, and in every point get_live_data_point
\* returns, power equals current * voltage and current is strictly positive
\* (so the power of every row whose current an anomaly changed was
\* recalculated).
C17_PowerIsCurrentTimesVoltage ==
    /\ call.fn = "simulate_energy_data" =>
          \A i \in 1..Len(call.value) : ConsistentRow(call.value[i])
    /\ call.fn = "get_live_data_point" => ConsistentRow(call.value)

\* C18: in the loop of the ESP32 simulator the readings generated with
\* include_anomaly True are exactly the 10th, 20th, 30th, ..., whether or
\* not the sends succeeded, and after each iteration anomaly_counter is
\* between 0 and 9.
C18_EveryTenthReading ==
    esp.readings > 0 =>
        /\ esp.include_anomaly <=> esp.readings % 10 = 0
        /\ esp.anomaly_counter \in 0..9

\* the 20th reading, when no reading so far was delivered
C18_Witness ==
    /\ esp.readings = 20
    /\ esp.delivered = 0
    /\ esp.include_anomaly

\* C19: load_data on a file that save_data wrote returns the records of the
\* saved frame, in the same order, with the same current, voltage and power
\* and the same timestamps, now as datetimes.
C19_SaveLoadRoundTrip ==
    call.fn = "load_data" =>
        \A data \in FramesSaved :
            call.file = save_data(data) =>
                /\ call.exc = ""
                /\ ~call.value.isNone
                /\ Len(call.value.rows) = Len(data.rows)
                /\ \A i \in 1..Len(data.rows) :
                      /\ SameReading(call.value.rows[i], data.rows[i])
                      /\ call.value.rows[i].timestamp.kind = "datetime"

\* C20: for every reading, detect_anomalies and get_anomaly_score agree: the
\* reading is flagged exactly when its score (the negated decision function)
\* is greater than 0, so of two readings scored by the same model the one
\* with the higher or equal score is flagged whenever the other is.
C20_FlagIffPositiveScore ==
    /\ (request.op = "post" /\ anomaly_model.trained) =>
          (response.is_anomaly <=> response.anomaly_score > 0)
    /\ call.fn = "score_anomalies" =>
          /\ Len(call.flags) = Len(call.data) /\ Len(call.value) = Len(call.data)
          /\ \A i \in 1..Len(call.data) : call.flags[i] <=> call.value[i] > 0
          /\ \A i, j \in 1..Len(call.data) :
                (call.flags[i] /\ call.value[j] >= call.value[i]) => call.flags[j]

\* a frame with a flagged row and a row exactly on the cut of the forest,
\* which is not flagged
C20_Witness ==
    /\ call.fn = "score_anomalies"
    /\ \E i, j \in 1..Len(call.data) :
          /\ call.flags[i] /\ call.value[i] > 0
          /\ ~call.flags[j] /\ call.value[j] = 0

\* C21: POSTs that arrive together are handled one at a time, in some
\* order: once all handlers have run, latest_readings ends with the stored
\* readings in the order of handling, and every reading whose handler ran
\* the save block is in the history file; no update of the buffer or of the
\* file is lost.
C21_NoLostUpdate ==
    (started /\ conc.inflight = <<>> /\ Len(conc.windows) = Len(accepted)) =>
        /\ Len(latest_readings) >= Len(accepted)
        /\ Last(latest_readings, Len(accepted)) = accepted
        /\ \A k \in 1..Len(accepted) : conc.windows[k] => InFile(accepted[k])

\* C22: when save_data fails it does not raise, and the history file holds
\* what it held before the call: never an empty, truncated or partly
\* written file.
C22_FailedSaveKeepsFile ==
    (call.fn = "save_data" /\ call.fault # "none") =>
        /\ call.exc = ""
        /\ file = call.before

====
